---------------------------- MODULE Spec2Model ----------------------------
(***************************************************************************)
(* A model of the party-quest bot (src/pq_auto): the template classifier   *)
(* ImageDetector.detect_state, the poll loop PartyQuestBot.run with its    *)
(* reactive dispatch _react_to_state, the keyboard listener thread that    *)
(* toggles pause, and the SIGINT/SIGTERM handler.                          *)
(*                                                                         *)
(* Time is a digital clock `now` (the value time.time() returns), counted  *)
(* in ticks.  A tick is longer than one poll interval, so a sleep of the   *)
(* loop moves the clock by 0 or 1 tick; every other step is instantaneous. *)
(* The timeouts of the source are scaled to ticks and keep their order:    *)
(* 30 s floor < QUEUE_TIMEOUT < inactivity_timeout < max_runtime.          *)
(***************************************************************************)
EXTENDS Integers, Sequences, FiniteSets, TLC

\* ------------------------------------------------------------------ bounds
\* The clock reading at construction (time.time() is a large epoch value, so
\* that now - 0 exceeds every timeout).
T0 == 10
\* Ticks of clock the model follows after construction.
MaxTime == 6
\* Completions counted in one session.
MaxClears == 2
\* Presses of the P key delivered to the listener.
MaxKeys == 2
\* Stop signals delivered.
MaxSignals == 1

Horizon == T0 + MaxTime
\* The largest width and height of a capture, in pixels.
MaxDim == 4
\* Fractional coordinates are multiples of 1/FracDen.
FracDen == 4
\* The largest fuzz range of a tap, in pixels.
MaxFuzz == 2

\* ------------------------------------------------------- program constants
\* config.py: MATCH_THRESHOLD = 0.90, in hundredths.
MATCH_THRESHOLD == 90
\* config.py: QUEUE_TIMEOUT = 180 s, scaled to ticks.
QUEUE_TIMEOUT == 2
\* config.py: DUNGEON_TIMEOUT = 360 s, scaled to ticks (no shorter than
\* QUEUE_TIMEOUT, shorter than inactivity_timeout).
DUNGEON_TIMEOUT == 2
\* config.py: CLICK_FUZZINESS_X = 100 and CLICK_FUZZINESS_Y = 20 pixels, scaled
\* to the captures of the model (the horizontal range the wider).
CLICK_FUZZINESS_X == 2
CLICK_FUZZINESS_Y == 1
\* main.py __init__: inactivity_timeout = 30 * 60 s, scaled to ticks.
inactivity_timeout == 3
\* main.py __init__: max_runtime = 8 * 60 * 60 s, scaled to ticks.
max_runtime == 5
\* main.py _react_to_state: the literal 30 (s) a dungeon must have lasted for a
\* READY observation to count it, scaled to ticks.
MinDungeonTime == 1
\* image_detector.py detect_state_with_fallback: upper_cyan > 5000.
CyanThreshold == 5000

None == -1

\* ------------------------------------------------------------- classifier
\* The template names detect_state asks for.
TemplateNames ==
    {"sleep_screen", "notice_banner", "auto_match_btn", "clear_screen",
     "accept_btn", "leave_btn", "matchmaking", "minimap"}

ScreenStates ==
    {"READY", "QUEUING", "MATCH_FOUND", "IN_DUNGEON", "CLEAR",
     "ERROR_DIALOG", "SLEEP_SCREEN", "UNKNOWN"}

\* Best correlation scores (hundredths) a frame can give a template: below the
\* threshold, exactly the threshold, above it.
LowConf == MATCH_THRESHOLD - 2
AtConf == MATCH_THRESHOLD
HighConf == MATCH_THRESHOLD + 3
ConfLevels == {LowConf, AtConf, HighConf}

\* A frame: the best score of every template on it and the number of cyan
\* pixels in its upper third.
BlankFrame ==
    [conf |-> [t \in TemplateNames |-> LowConf], upper_cyan |-> 0]

VARIABLES
    now,                  \* time.time()
    templates,            \* detector.templates: the names loaded
    group_mode,           \* self.group_mode
    observe,              \* which histories are kept: "run", "pause",
                          \* "stall"
    screenshot,           \* the frame of the current iteration
    detected_state,       \* its classification ("NONE" before a capture)
    pc,                   \* position of the main thread in run()
    state,                \* self.state (BotState)
    running,              \* self.running
    paused,               \* self.paused
    clear_count,          \* self.clear_count
    last_clear_counted,   \* self.last_clear_counted
    last_clear_time,      \* self.last_clear_time
    queue_start,          \* self.queue_start
    dungeon_start,        \* self.dungeon_start
    total_paused_seconds, \* self.total_paused_seconds
    pause_start_time,     \* self.pause_start_time (None or a clock reading)
    old_settings,         \* self.old_settings: "None" or "saved"
    term,                 \* the terminal's mode: "cooked" or "cbreak"
    taps,                 \* buttons tapped by the dispatch of this iteration
    summary,              \* TRUE once _print_final_stats has printed
    lpc,                  \* position of the listener thread
    pause_duration,       \* listener local: pause_duration
    lct_tmp,              \* listener local: last_clear_time as loaded by +=
    keys,                 \* P presses delivered so far
    signals,              \* stop signals delivered so far
    stopReason,           \* history: the guard that broke the loop, or "none"
    pausedTicks,          \* history: ticks that passed with paused = TRUE
    activeSinceClear,     \* history: ticks with paused = FALSE since the last
                          \* completion (or since construction)
    runPhase,             \* history: progress of the run MATCH_FOUND,
                          \* IN_DUNGEON*, CLEAR+
    matchBase,            \* history: clear_count at the last MATCH_FOUND
                          \* dispatch (None before the first)
    resetBase,            \* history: clear_count when last_clear_counted was
                          \* last cleared by a READY or MATCH_FOUND dispatch
    pausedCaptures,       \* history: captures since paused was last set
    pausedDispatches,     \* history: dispatches since paused was last set
    screen_width,         \* adb.screen_width
    screen_height,        \* adb.screen_height
    rel,                  \* a BUTTONS_RELATIVE entry <<x, y>>, in 1/FracDen
    button,               \* its entry of adb.buttons <<x, y>> (None before
                          \* it is resolved)
    click_fuzziness,      \* the range adb_controller.CLICK_FUZZINESS names
    tapped,               \* <<fuzzy_x, fuzzy_y>> of the last input tap sent
                          \* by adb.tap (None before the first)
    unknownSince          \* history: the clock at the first of the UNKNOWN
                          \* classifications in a row up to the last poll
                          \* (None when the last one was not UNKNOWN)

vars ==
    <<now, templates, group_mode, observe, screenshot, detected_state, pc, state, running, paused,
      clear_count, last_clear_counted, last_clear_time, queue_start,
      dungeon_start, total_paused_seconds, pause_start_time, old_settings,
      term, taps, summary, lpc, pause_duration, lct_tmp, keys, signals,
      stopReason, pausedTicks, activeSinceClear, runPhase, matchBase,
      resetBase, pausedCaptures, pausedDispatches, screen_width,
      screen_height, rel, button, click_fuzziness, tapped, unknownSince>>

\* A find_template that takes a score equal to the threshold for a miss.
find_template_Strict(tpl, frame, name) ==
    IF name \notin tpl
    THEN <<FALSE, 0>>
    ELSE IF frame.conf[name] > MATCH_THRESHOLD
         THEN <<TRUE, frame.conf[name]>>
         ELSE <<FALSE, frame.conf[name]>>

\* image_detector.py find_template: <<found, confidence>> of a template on a
\* frame, with the templates `tpl` loaded.
find_template(tpl, frame, name) ==
    IF name \notin tpl
    THEN <<FALSE, 0>>
    ELSE IF frame.conf[name] >= MATCH_THRESHOLD
         THEN <<TRUE, frame.conf[name]>>
         ELSE <<FALSE, frame.conf[name]>>

\* A detect_state that gives an Accept/Leave tie to Accept.
detect_state_TieAccept(tpl, frame) ==
    LET sleep  == find_template(tpl, frame, "sleep_screen")
        notice == find_template(tpl, frame, "notice_banner")
        auto   == find_template(tpl, frame, "auto_match_btn")
        clear  == find_template(tpl, frame, "clear_screen")
        accept == find_template(tpl, frame, "accept_btn")
        leave  == find_template(tpl, frame, "leave_btn")
        mm     == find_template(tpl, frame, "matchmaking")
        mini   == find_template(tpl, frame, "minimap")
    IN  IF sleep[1] THEN "SLEEP_SCREEN"
        ELSE IF notice[1] THEN "ERROR_DIALOG"
        ELSE IF auto[1] THEN "READY"
        ELSE IF clear[1] THEN "CLEAR"
        ELSE IF accept[1] /\ leave[1]
             THEN (IF accept[2] >= leave[2] THEN "MATCH_FOUND" ELSE "CLEAR")
        ELSE IF accept[1] THEN "MATCH_FOUND"
        ELSE IF leave[1] THEN "CLEAR"
        ELSE IF mm[1] THEN "QUEUING"
        ELSE IF mini[1] THEN "IN_DUNGEON"
        ELSE "UNKNOWN"

\* A detect_state that asks for the minimap before the matchmaking indicator.
detect_state_MinimapFirst(tpl, frame) ==
    LET sleep  == find_template(tpl, frame, "sleep_screen")
        notice == find_template(tpl, frame, "notice_banner")
        auto   == find_template(tpl, frame, "auto_match_btn")
        clear  == find_template(tpl, frame, "clear_screen")
        accept == find_template(tpl, frame, "accept_btn")
        leave  == find_template(tpl, frame, "leave_btn")
        mm     == find_template(tpl, frame, "matchmaking")
        mini   == find_template(tpl, frame, "minimap")
    IN  IF sleep[1] THEN "SLEEP_SCREEN"
        ELSE IF notice[1] THEN "ERROR_DIALOG"
        ELSE IF auto[1] THEN "READY"
        ELSE IF clear[1] THEN "CLEAR"
        ELSE IF accept[1] /\ leave[1]
             THEN (IF accept[2] > leave[2] THEN "MATCH_FOUND" ELSE "CLEAR")
        ELSE IF accept[1] THEN "MATCH_FOUND"
        ELSE IF leave[1] THEN "CLEAR"
        ELSE IF mini[1] THEN "IN_DUNGEON"
        ELSE IF mm[1] THEN "QUEUING"
        ELSE "UNKNOWN"

\* image_detector.py detect_state.
detect_state(tpl, frame) ==
    LET sleep  == find_template(tpl, frame, "sleep_screen")
        notice == find_template(tpl, frame, "notice_banner")
        auto   == find_template(tpl, frame, "auto_match_btn")
        clear  == find_template(tpl, frame, "clear_screen")
        accept == find_template(tpl, frame, "accept_btn")
        leave  == find_template(tpl, frame, "leave_btn")
        mm     == find_template(tpl, frame, "matchmaking")
        mini   == find_template(tpl, frame, "minimap")
    IN  IF sleep[1] THEN "SLEEP_SCREEN"
        ELSE IF notice[1] THEN "ERROR_DIALOG"
        ELSE IF auto[1] THEN "READY"
        ELSE IF clear[1] THEN "CLEAR"
        ELSE IF accept[1] /\ leave[1]
             THEN (IF accept[2] > leave[2] THEN "MATCH_FOUND" ELSE "CLEAR")
        ELSE IF accept[1] THEN "MATCH_FOUND"
        ELSE IF leave[1] THEN "CLEAR"
        ELSE IF mm[1] THEN "QUEUING"
        ELSE IF mini[1] THEN "IN_DUNGEON"
        ELSE "UNKNOWN"

\* image_detector.py detect_state_with_fallback.
detect_state_with_fallback(tpl, frame) ==
    LET st == detect_state(tpl, frame)
    IN  IF st # "UNKNOWN" \/ tpl # {}
        THEN st
        ELSE IF frame.upper_cyan > CyanThreshold THEN "CLEAR" ELSE "UNKNOWN"

\* A classifier that falls back on the colours whenever no template matches.
Classify_FallbackMixed(tpl, frame) ==
    LET st == detect_state(tpl, frame)
    IN  IF st # "UNKNOWN" THEN st
        ELSE IF frame.upper_cyan > CyanThreshold THEN "CLEAR" ELSE "UNKNOWN"

\* A classifier that never consults the colours.
Classify_TemplatesOnly(tpl, frame) == detect_state(tpl, frame)

\* main.py run, lines 220-224: the classifier the loop uses.
Classify(tpl, frame) ==
    IF tpl # {} THEN detect_state(tpl, frame)
    ELSE detect_state_with_fallback(tpl, frame)

\* -------------------------------------------------------------- helpers
Max(a, b) == IF a >= b THEN a ELSE b
Min(a, b) == IF a <= b THEN a ELSE b

\* adb_controller.py _calculate_button_coordinates, lines 154-156: the
\* absolute coordinates of the fractional coordinate relc = <<x, y>> (in
\* 1/FracDen) on a capture of w by h; int() of a non-negative product is its
\* floor.
_calculate_button_coordinates(relc, w, h) ==
    <<(relc[1] * w) \div FracDen, (relc[2] * h) \div FracDen>>

\* adb_controller.py tap, lines 179-180: an offset coordinate clamped to the
\* screen.
Clamp(v, size) == Max(0, Min(size - 1, v))

\* A queue-entry button that is Auto Match in either mode.
queue_button_Solo == "auto_match"

\* main.py __init__, line 58: the queue-entry button of the session.
queue_button == IF group_mode THEN "enter" ELSE "auto_match"

\* main.py __init__, line 62: session_start is the clock at construction.
session_start == T0

\* main.py _get_active_elapsed_seconds.
_get_active_elapsed_seconds ==
    LET total_elapsed == now - session_start
        pausedNow == IF paused /\ pause_start_time # None
                     THEN total_paused_seconds + (now - pause_start_time)
                     ELSE total_paused_seconds
    IN  total_elapsed - pausedNow

\* main.py run, lines 229-230: the inactivity guard's condition.
InactivityExceeded == now - last_clear_time > inactivity_timeout

\* main.py run, lines 237-238: the max-runtime guard's condition.
MaxRuntimeExceeded == _get_active_elapsed_seconds > max_runtime

\* main.py _restore_terminal: the mode of the terminal after it.
RestoredTerm == IF old_settings # "None" THEN "cooked" ELSE term

\* The clock readings a sleep of the loop can end at: a sleep is shorter than
\* a tick, so the clock moves by 0 or by 1.
SleepTicks == IF now < Horizon THEN {0, 1} ELSE {0}

\* time.sleep: d ticks pass.
Sleep(d) == now' = now + d

\* The frames a poll may capture: one per template, on which that template
\* alone matches, and the frame on which none does.
OnlyFrame(t) ==
    [conf |-> [u \in TemplateNames |-> IF u = t THEN HighConf ELSE LowConf],
     upper_cyan |-> 0]

PollFrames == {OnlyFrame(t) : t \in TemplateNames} \cup {BlankFrame}

\* A completion rule that ignores last_clear_counted: every CLEAR dispatch
\* counts.
ClearCounts_Always == TRUE

\* main.py _react_to_state, line 290: a CLEAR dispatch applies the completion
\* rule.
ClearCounts == ~last_clear_counted

\* A READY rule that ignores last_clear_counted.
ReadyCounts_Unflagged ==
    /\ state = "IN_DUNGEON"
    /\ now - dungeon_start > MinDungeonTime

\* main.py _react_to_state, lines 267-269: a READY dispatch counts a completion.
ReadyCounts ==
    /\ state = "IN_DUNGEON"
    /\ ~last_clear_counted
    /\ now - dungeon_start > MinDungeonTime

\* Whether the dispatch of classification ds would count a completion.
WouldCount(ds) ==
    \/ ds = "CLEAR" /\ ClearCounts
    \/ ds = "READY" /\ ReadyCounts

Inc2(n) == IF n < 2 THEN n + 1 ELSE 2

listenerVars == <<lpc, pause_duration, lct_tmp, keys>>
adbVars == <<screen_width, screen_height, rel, button, click_fuzziness, tapped>>
configVars == <<templates, group_mode, observe, adbVars>>
timerVars == <<queue_start, dungeon_start>>
countVars == <<clear_count, last_clear_counted, last_clear_time>>
pauseVars == <<paused, total_paused_seconds, pause_start_time>>
runHist == <<runPhase, matchBase, resetBase>>
pauseHist == <<pausedTicks, activeSinceClear, pausedCaptures, pausedDispatches>>
stallHist == <<unknownSince>>
frameVars == <<screenshot, detected_state, taps>>

\* ------------------------------------------------------------------ Init
InitCore(obs, tpl, frame, at) ==
    /\ now = T0
    /\ templates = tpl
    /\ observe = obs
    /\ screenshot = frame
    /\ detected_state = "NONE"
    /\ pc = at
    /\ state = "IDLE"
    /\ running = TRUE
    /\ paused = FALSE
    /\ clear_count = 0
    /\ last_clear_counted = FALSE
    /\ last_clear_time = T0
    /\ queue_start = 0
    /\ dungeon_start = 0
    /\ total_paused_seconds = 0
    /\ pause_start_time = None
    /\ old_settings = "None"
    /\ term = "cooked"
    /\ taps = <<>>
    /\ summary = FALSE
    /\ lpc = "off"
    /\ pause_duration = 0
    /\ lct_tmp = 0
    /\ keys = 0
    /\ signals = 0
    /\ stopReason = "none"
    /\ pausedTicks = 0
    /\ activeSinceClear = 0
    /\ runPhase = "none"
    /\ matchBase = None
    /\ resetBase = 0
    /\ pausedCaptures = 0
    /\ pausedDispatches = 0
    /\ unknownSince = None

\* An ADB controller constructed for the largest capture: the button at the
\* middle of the capture resolved, and no tap sent yet.
AdbConstructed ==
    /\ screen_width = MaxDim
    /\ screen_height = MaxDim
    /\ rel = <<FracDen \div 2, FracDen \div 2>>
    /\ button = _calculate_button_coordinates(rel, MaxDim, MaxDim)
    /\ click_fuzziness = MaxFuzz
    /\ tapped = None

\* The bot in solo mode (main.py __init__, group_mode: bool = False).
InitBot(obs, tpl, frame, at) ==
    /\ InitCore(obs, tpl, frame, at)
    /\ group_mode = FALSE
    /\ AdbConstructed

\* The bot as run() finds it: every template loaded, nothing captured yet.
InitWith(obs) == InitBot(obs, TemplateNames, BlankFrame, "setup")

Init == InitWith({"run", "pause", "stall"})

\* ------------------------------------------------------------ histories
\* The step is a call of _react_to_state.
IsDispatch == pc = "dispatch" /\ pc' # "dispatch"

\* The step is a call of adb.screenshot.
IsCapture == pc = "capture" /\ pc' # "capture"

\* The step is one of _keyboard_listener, the listener thread.
IsListenerStep == lpc' # lpc /\ pc' = pc

\* The history of the dungeon run in progress.
RunObs ==
    /\ runPhase' =
         IF ~IsDispatch THEN runPhase
         ELSE CASE detected_state = "MATCH_FOUND" -> "matched"
                [] detected_state = "IN_DUNGEON" ->
                     IF runPhase = "matched" THEN "matched" ELSE "none"
                [] detected_state = "CLEAR" ->
                     (CASE runPhase = "matched" -> "clear1"
                        [] runPhase \in {"clear1", "clearN"} -> "clearN"
                        [] OTHER -> "none")
                [] OTHER -> "none"
    /\ matchBase' =
         IF IsDispatch /\ detected_state = "MATCH_FOUND"
         THEN clear_count ELSE matchBase
    /\ resetBase' =
         IF IsDispatch /\ detected_state \in {"MATCH_FOUND", "READY"}
         THEN clear_count' ELSE resetBase

\* The history of the pauses.
PauseObs ==
    /\ pausedTicks' = pausedTicks + (IF paused THEN now' - now ELSE 0)
    /\ activeSinceClear' =
         IF clear_count' # clear_count THEN 0
         ELSE activeSinceClear + (IF paused THEN 0 ELSE now' - now)
    /\ pausedCaptures' =
         IF paused' # paused THEN 0
         ELSE IF IsCapture /\ paused THEN Inc2(pausedCaptures)
         ELSE pausedCaptures
    /\ pausedDispatches' =
         IF paused' # paused THEN 0
         ELSE IF IsDispatch /\ paused THEN Inc2(pausedDispatches)
         ELSE pausedDispatches

\* The history of the UNKNOWN classifications: a poll that classifies the
\* frame UNKNOWN starts or continues the row, any other classification ends
\* it, and a capture that fails classifies nothing.
StallObs ==
    unknownSince' =
      IF pc = "capture" /\ pc' = "guards"
      THEN IF detected_state' = "UNKNOWN"
           THEN (IF unknownSince = None THEN now ELSE unknownSince)
           ELSE None
      ELSE unknownSince

\* The histories a step keeps.
Hist ==
    /\ IF "run" \in observe THEN RunObs ELSE UNCHANGED runHist
    /\ IF "pause" \in observe THEN PauseObs ELSE UNCHANGED pauseHist
    /\ IF "stall" \in observe THEN StallObs ELSE UNCHANGED stallHist

\* ------------------------------------------------------- the main thread
\* main.py run, line 207, and _setup_terminal: cbreak mode when termios
\* allows it (`outcomes` holds TRUE) or the except branch of line 116 when it
\* raises (`outcomes` holds FALSE), and the listener thread starts.
SetupTerminal(outcomes) ==
    /\ pc = "setup"
    /\ \E ok \in outcomes :
         /\ old_settings' = IF ok THEN "saved" ELSE "None"
         /\ term' = IF ok THEN "cbreak" ELSE "cooked"
    /\ lpc' = "idle"
    /\ pc' = "top"
    /\ UNCHANGED <<configVars, frameVars, state, running, countVars, timerVars,
                   pauseVars, summary, pause_duration, lct_tmp, keys, signals,
                   stopReason, now>>
    /\ Hist

\* main.py run, line 210 with running false: the loop is left.
LoopExit ==
    /\ pc = "top"
    /\ ~running
    /\ pc' = "finally"
    /\ UNCHANGED <<configVars, frameVars, state, running, countVars, timerVars,
                   pauseVars, old_settings, term, summary, listenerVars,
                   signals, stopReason, now>>
    /\ Hist

\* main.py run, lines 213-215: paused, the loop sleeps 0.1 s and starts over.
PausedWait ==
    /\ pc = "top"
    /\ running
    /\ paused
    /\ \E d \in SleepTicks : Sleep(d)
    /\ pc' = "top"
    /\ UNCHANGED <<configVars, frameVars, state, running, countVars, timerVars,
                   pauseVars, old_settings, term, summary, listenerVars,
                   signals, stopReason>>
    /\ Hist

\* A loop top that does not look at the paused flag.
LoopTop_IgnoresPause ==
    /\ pc = "top"
    /\ running
    /\ pc' = "capture"
    /\ UNCHANGED <<configVars, frameVars, state, running, countVars, timerVars,
                   pauseVars, old_settings, term, summary, listenerVars,
                   signals, stopReason, now>>
    /\ Hist

\* main.py run, lines 210-217: running and not paused, an iteration begins.
LoopTop ==
    /\ pc = "top"
    /\ running
    /\ ~paused
    /\ pc' = "capture"
    /\ UNCHANGED <<configVars, frameVars, state, running, countVars, timerVars,
                   pauseVars, old_settings, term, summary, listenerVars,
                   signals, stopReason, now>>
    /\ Hist

\* main.py run, lines 218-226: the capture succeeds, with one of `frames` on
\* the screen, and the frame is classified.
Capture(frames) ==
    /\ pc = "capture"
    /\ \E f \in frames :
         /\ clear_count < MaxClears \/ ~WouldCount(Classify(templates, f))
         /\ screenshot' = f
         /\ detected_state' = Classify(templates, f)
    /\ pc' = "guards"
    /\ UNCHANGED <<configVars, taps, state, running, countVars, timerVars,
                   pauseVars, old_settings, term, summary, listenerVars,
                   signals, stopReason, now>>
    /\ Hist

\* A capture failure that ends the loop instead of being retried.
CaptureFails_Breaks ==
    /\ pc = "capture"
    /\ pc' = "finally"
    /\ UNCHANGED <<configVars, frameVars, state, running, countVars, timerVars,
                   pauseVars, old_settings, term, summary, listenerVars,
                   signals, stopReason, now>>
    /\ Hist

\* adb_controller.py screenshot raises (returncode # 0): control passes to the
\* handler of main.py run, line 251.
CaptureFails ==
    /\ pc = "capture"
    /\ pc' = "except"
    /\ UNCHANGED <<configVars, frameVars, state, running, countVars, timerVars,
                   pauseVars, old_settings, term, summary, listenerVars,
                   signals, stopReason, now>>
    /\ Hist

\* Guards without the max-runtime guard.
Guards_InactivityOnly ==
    /\ pc = "guards"
    /\ IF InactivityExceeded
       THEN running' = FALSE /\ stopReason' = "inactivity" /\ pc' = "finally"
       ELSE running' = running /\ stopReason' = stopReason /\ pc' = "dispatch"
    /\ UNCHANGED <<configVars, frameVars, state, countVars, timerVars,
                   pauseVars, old_settings, term, summary, listenerVars,
                   signals, now>>
    /\ Hist

\* main.py run, lines 228-242: the inactivity guard, then the max-runtime
\* guard; either one clears running and breaks out of the loop.
Guards ==
    /\ pc = "guards"
    /\ IF InactivityExceeded
       THEN running' = FALSE /\ stopReason' = "inactivity" /\ pc' = "finally"
       ELSE IF MaxRuntimeExceeded
       THEN running' = FALSE /\ stopReason' = "max_runtime" /\ pc' = "finally"
       ELSE running' = running /\ stopReason' = stopReason /\ pc' = "dispatch"
    /\ UNCHANGED <<configVars, frameVars, state, countVars, timerVars,
                   pauseVars, old_settings, term, summary, listenerVars,
                   signals, now>>
    /\ Hist

\* ------------------------------------------------- _react_to_state
\* image_detector.py, class ImageDetector: the methods the detector defines.
DetectorMethods ==
    {"_load_templates", "find_template", "find_all_templates", "detect_state",
     "detect_state_with_fallback"}

\* main.py _react_to_state, lines 304 and 339: the dispatch calls
\* self.detector.read_matchmaking_time, which raises AttributeError when the
\* detector has no such method.
ReadTimeRaises == "read_matchmaking_time" \notin DetectorMethods

\* main.py run, line 245: the call of _react_to_state.
Dispatched == pc = "dispatch"

\* main.py _react_to_state, lines 264-278: READY.
ReactReady ==
    /\ Dispatched
    /\ detected_state = "READY"
    /\ IF ReadyCounts
       THEN /\ clear_count' = clear_count + 1
            /\ last_clear_time' = now
       ELSE UNCHANGED <<clear_count, last_clear_time>>
    /\ taps' = <<queue_button>>
    /\ state' = "QUEUING"
    /\ queue_start' = now
    /\ last_clear_counted' = FALSE
    /\ pc' = "sleep"
    /\ UNCHANGED <<configVars, screenshot, detected_state, running,
                   dungeon_start, pauseVars, old_settings, term, summary,
                   listenerVars, signals, stopReason, now>>
    /\ Hist

\* A MATCH_FOUND branch that assigns the enum member of the same name.
ReactMatchFound_MatchFoundState ==
    /\ Dispatched
    /\ detected_state = "MATCH_FOUND"
    /\ taps' = <<"accept">>
    /\ state' = "MATCH_FOUND"
    /\ dungeon_start' = now
    /\ last_clear_counted' = FALSE
    /\ pc' = "sleep"
    /\ UNCHANGED <<configVars, screenshot, detected_state, running,
                   clear_count, last_clear_time, queue_start, pauseVars,
                   old_settings, term, summary, listenerVars, signals,
                   stopReason, now>>
    /\ Hist

\* A MATCH_FOUND branch that does not record dungeon_start.
ReactMatchFound_NoStart ==
    /\ Dispatched
    /\ detected_state = "MATCH_FOUND"
    /\ taps' = <<"accept">>
    /\ state' = "IN_DUNGEON"
    /\ last_clear_counted' = FALSE
    /\ pc' = "sleep"
    /\ UNCHANGED <<configVars, screenshot, detected_state, running,
                   clear_count, last_clear_time, timerVars, pauseVars,
                   old_settings, term, summary, listenerVars, signals,
                   stopReason, now>>
    /\ Hist

\* main.py _react_to_state, lines 280-286: MATCH_FOUND.
ReactMatchFound ==
    /\ Dispatched
    /\ detected_state = "MATCH_FOUND"
    /\ taps' = <<"accept">>
    /\ state' = "IN_DUNGEON"
    /\ dungeon_start' = now
    /\ last_clear_counted' = FALSE
    /\ pc' = "sleep"
    /\ UNCHANGED <<configVars, screenshot, detected_state, running,
                   clear_count, last_clear_time, queue_start, pauseVars,
                   old_settings, term, summary, listenerVars, signals,
                   stopReason, now>>
    /\ Hist

\* A CLEAR branch whose completion rule leaves last_clear_time alone.
ReactClear_KeepsClearTime ==
    /\ Dispatched
    /\ detected_state = "CLEAR"
    /\ IF ClearCounts
       THEN /\ clear_count' = clear_count + 1
            /\ last_clear_counted' = TRUE
            /\ state' = "IDLE"
       ELSE UNCHANGED <<clear_count, last_clear_counted, state>>
    /\ taps' = <<"leave">>
    /\ pc' = "sleep"
    /\ UNCHANGED <<configVars, screenshot, detected_state, running,
                   last_clear_time, timerVars, pauseVars, old_settings, term,
                   summary, listenerVars, signals, stopReason, now>>
    /\ Hist

\* main.py _react_to_state, lines 288-293, with _complete_dungeon, lines
\* 455-461: CLEAR.
ReactClear ==
    /\ Dispatched
    /\ detected_state = "CLEAR"
    /\ IF ClearCounts
       THEN /\ clear_count' = clear_count + 1
            /\ last_clear_time' = now
            /\ last_clear_counted' = TRUE
            /\ state' = "IDLE"
       ELSE UNCHANGED <<clear_count, last_clear_time, last_clear_counted,
                        state>>
    /\ taps' = <<"leave">>
    /\ pc' = "sleep"
    /\ UNCHANGED <<configVars, screenshot, detected_state, running, timerVars,
                   pauseVars, old_settings, term, summary, listenerVars,
                   signals, stopReason, now>>
    /\ Hist

\* An ERROR_DIALOG branch that dismisses the dialog and keeps BotState.
ReactErrorDialog_KeepsState ==
    /\ Dispatched
    /\ detected_state = "ERROR_DIALOG"
    /\ taps' = <<"ok">>
    /\ \E d \in SleepTicks : Sleep(d)
    /\ pc' = "sleep"
    /\ UNCHANGED <<configVars, screenshot, detected_state, state, running,
                   countVars, timerVars, pauseVars, old_settings, term,
                   summary, listenerVars, signals, stopReason>>
    /\ Hist

\* main.py _react_to_state, lines 295-300: ERROR_DIALOG.
ReactErrorDialog ==
    /\ Dispatched
    /\ detected_state = "ERROR_DIALOG"
    /\ taps' = <<"ok">>
    /\ \E d \in SleepTicks : Sleep(d)
    /\ state' = "IDLE"
    /\ pc' = "sleep"
    /\ UNCHANGED <<configVars, screenshot, detected_state, running, countVars,
                   timerVars, pauseVars, old_settings, term, summary,
                   listenerVars, signals, stopReason>>
    /\ Hist

\* main.py _react_to_state, line 304: the readings a read_matchmaking_time
\* could return to the branch: none (0), one within the queue timeout and one
\* beyond it.
Readings == {0, QUEUE_TIMEOUT, QUEUE_TIMEOUT + 1}

\* main.py _react_to_state, line 321: the time in queue by the controller's
\* own timer, which the branch falls back to when there is no reading.
queue_time == now - queue_start

\* main.py _react_to_state, lines 302-330: QUEUING. When the call of line 304
\* raises, control passes to the handler of run, line 251, and nothing is
\* tapped. Otherwise the reading, or with no reading the time since
\* queue_start, decides between the cancel tap and the accept tap.
ReactQueuing ==
    /\ Dispatched
    /\ detected_state = "QUEUING"
    /\ IF ReadTimeRaises
       THEN /\ pc' = "except"
            /\ UNCHANGED <<taps, state, now>>
       ELSE \E screen_time \in Readings :
              LET elapsed == IF screen_time > 0 THEN screen_time
                             ELSE queue_time
              IN  IF elapsed > QUEUE_TIMEOUT
                  THEN /\ taps' = <<"cancel_queue">>
                       /\ \E d \in SleepTicks : Sleep(d)
                       /\ state' = "IDLE"
                       /\ pc' = "sleep"
                  ELSE /\ taps' = <<"accept">>
                       /\ state' = "QUEUING"
                       /\ pc' = "sleep"
                       /\ UNCHANGED now
    /\ UNCHANGED <<configVars, screenshot, detected_state, running, countVars,
                   timerVars, pauseVars, old_settings, term, summary,
                   listenerVars, signals, stopReason>>
    /\ Hist

\* main.py _react_to_state, lines 332-334: IN_DUNGEON.
ReactInDungeon ==
    /\ Dispatched
    /\ detected_state = "IN_DUNGEON"
    /\ state' = "IN_DUNGEON"
    /\ pc' = "sleep"
    /\ UNCHANGED <<configVars, frameVars, running, countVars, timerVars,
                   pauseVars, old_settings, term, summary, listenerVars,
                   signals, stopReason, now>>
    /\ Hist

\* main.py _react_to_state, lines 336-339: UNKNOWN; the call of line 339
\* raises and control passes to the handler of run, line 251.
ReactUnknown ==
    /\ Dispatched
    /\ detected_state = "UNKNOWN"
    /\ ReadTimeRaises
    /\ pc' = "except"
    /\ UNCHANGED <<configVars, frameVars, state, running, countVars, timerVars,
                   pauseVars, old_settings, term, summary, listenerVars,
                   signals, stopReason, now>>
    /\ Hist

\* main.py _react_to_state, lines 264-365: no branch names SLEEP_SCREEN, so
\* the dispatch does nothing.
ReactSleepScreen ==
    /\ Dispatched
    /\ detected_state = "SLEEP_SCREEN"
    /\ pc' = "sleep"
    /\ UNCHANGED <<configVars, frameVars, state, running, countVars, timerVars,
                   pauseVars, old_settings, term, summary, listenerVars,
                   signals, stopReason, now>>
    /\ Hist

\* main.py run, line 247: the sleep between polls; the iteration's locals go.
PollSleep ==
    /\ pc = "sleep"
    /\ \E d \in SleepTicks : Sleep(d)
    /\ screenshot' = BlankFrame
    /\ detected_state' = "NONE"
    /\ taps' = <<>>
    /\ pc' = "top"
    /\ UNCHANGED <<configVars, state, running, countVars, timerVars, pauseVars,
                   old_settings, term, summary, listenerVars, signals,
                   stopReason>>
    /\ Hist

\* main.py run, lines 251-255: the generic handler logs and backs off.
Backoff ==
    /\ pc = "except"
    /\ \E d \in SleepTicks : Sleep(d)
    /\ screenshot' = BlankFrame
    /\ detected_state' = "NONE"
    /\ taps' = <<>>
    /\ pc' = "top"
    /\ UNCHANGED <<configVars, state, running, countVars, timerVars, pauseVars,
                   old_settings, term, summary, listenerVars, signals,
                   stopReason>>
    /\ Hist

\* A finally block that does not restore the terminal.
Finally_NoRestore ==
    /\ pc = "finally"
    /\ pc' = "stats"
    /\ UNCHANGED <<configVars, frameVars, state, running, countVars, timerVars,
                   pauseVars, old_settings, term, summary, listenerVars,
                   signals, stopReason, now>>
    /\ Hist

\* main.py run, lines 256-257: finally, _restore_terminal.
Finally ==
    /\ pc = "finally"
    /\ term' = RestoredTerm
    /\ pc' = "stats"
    /\ UNCHANGED <<configVars, frameVars, state, running, countVars, timerVars,
                   pauseVars, old_settings, summary, listenerVars, signals,
                   stopReason, now>>
    /\ Hist

\* main.py run, line 259: _print_final_stats.
PrintFinalStats ==
    /\ pc = "stats"
    /\ summary' = TRUE
    /\ pc' = "done"
    /\ UNCHANGED <<configVars, frameVars, state, running, countVars, timerVars,
                   pauseVars, old_settings, term, listenerVars, signals,
                   stopReason, now>>
    /\ Hist

\* main.py _signal_handler: SIGINT or SIGTERM, run in the main thread between
\* two of its steps.
SignalHandler ==
    /\ signals < MaxSignals
    /\ pc # "done"
    /\ signals' = signals + 1
    /\ term' = RestoredTerm
    /\ running' = FALSE
    /\ state' = "STOPPED"
    /\ UNCHANGED <<configVars, frameVars, pc, countVars, timerVars, pauseVars,
                   old_settings, summary, listenerVars, stopReason, now>>
    /\ Hist

\* --------------------------------------------------- the listener thread
\* main.py _keyboard_listener, lines 133-138: the P key is read and the flag
\* toggled.
ListenerToggle ==
    /\ lpc = "idle"
    /\ running
    /\ pc # "done"
    /\ keys < MaxKeys
    /\ keys' = keys + 1
    /\ paused' = ~paused
    /\ lpc' = IF paused' THEN "l140" ELSE "l144"
    /\ UNCHANGED <<configVars, frameVars, pc, state, running, countVars,
                   timerVars, total_paused_seconds, pause_start_time,
                   old_settings, term, summary, pause_duration, lct_tmp,
                   signals, stopReason, now>>
    /\ Hist

\* main.py _keyboard_listener, line 140: the pause begins.
ListenerPauseStart ==
    /\ lpc = "l140"
    /\ pause_start_time' = now
    /\ lpc' = "idle"
    /\ UNCHANGED <<configVars, frameVars, pc, state, running, countVars,
                   timerVars, paused, total_paused_seconds, old_settings, term,
                   summary, pause_duration, lct_tmp, keys, signals, stopReason,
                   now>>
    /\ Hist

\* main.py _keyboard_listener, lines 144-148: the pause's length is added to
\* the total, and += loads last_clear_time.
ListenerAccumulate ==
    /\ lpc = "l144"
    /\ IF pause_start_time # None
       THEN /\ pause_duration' = now - pause_start_time
            /\ total_paused_seconds' = total_paused_seconds + pause_duration'
            /\ lct_tmp' = last_clear_time
            /\ lpc' = "l148"
       ELSE /\ UNCHANGED <<pause_duration, total_paused_seconds, lct_tmp>>
            /\ lpc' = "idle"
    /\ UNCHANGED <<configVars, frameVars, pc, state, running, countVars,
                   timerVars, paused, pause_start_time, old_settings, term,
                   summary, keys, signals, stopReason, now>>
    /\ Hist

\* main.py _keyboard_listener, lines 148-149: += stores last_clear_time, and
\* the pause's start is forgotten.
ListenerAdjust ==
    /\ lpc = "l148"
    /\ last_clear_time' = lct_tmp + pause_duration
    /\ pause_start_time' = None
    /\ pause_duration' = 0
    /\ lct_tmp' = 0
    /\ lpc' = "idle"
    /\ UNCHANGED <<configVars, frameVars, pc, state, running, clear_count,
                   last_clear_counted, timerVars, paused, total_paused_seconds,
                   old_settings, term, summary, keys, signals, stopReason,
                   now>>
    /\ Hist

\* ------------------------------------------------------ the classifier
\* main.py run, line 221: detect_state is called on the captured frame.
DetectState ==
    /\ pc = "detect"
    /\ detected_state' = detect_state(templates, screenshot)
    /\ pc' = "detected"
    /\ UNCHANGED <<configVars, screenshot, taps, state, running, countVars,
                   timerVars, pauseVars, old_settings, term, summary,
                   listenerVars, signals, stopReason, now>>
    /\ Hist

\* main.py run, lines 220-224: the loop classifies the captured frame.
ClassifyFrame ==
    /\ pc = "classify"
    /\ detected_state' = Classify(templates, screenshot)
    /\ pc' = "classified"
    /\ UNCHANGED <<configVars, screenshot, taps, state, running, countVars,
                   timerVars, pauseVars, old_settings, term, summary,
                   listenerVars, signals, stopReason, now>>
    /\ Hist

\* ------------------------------------------------------ the ADB controller
\* adb_controller.py __init__, line 34: the button layout is resolved against
\* the detected screen size.
CalculateButtonCoordinates ==
    /\ pc = "construct"
    /\ button' = _calculate_button_coordinates(rel, screen_width, screen_height)
    /\ pc' = "constructed"
    /\ UNCHANGED <<templates, group_mode, observe, screen_width, screen_height,
                   rel, click_fuzziness, tapped, frameVars, state, running,
                   countVars, timerVars, pauseVars, old_settings, term,
                   summary, listenerVars, signals, stopReason, now>>
    /\ Hist

\* adb_controller.py tap, line 177: the values the horizontal offset is drawn
\* from, random.randint(-CLICK_FUZZINESS, CLICK_FUZZINESS).
offset_x_range == (-click_fuzziness)..click_fuzziness

\* adb_controller.py tap, line 178: the values the vertical offset is drawn
\* from, the same call with the same name.
offset_y_range == (-click_fuzziness)..click_fuzziness

\* A tap that sends the offset coordinates as they are.
tap_NoClamp ==
    /\ pc = "constructed"
    /\ \E offset_x \in offset_x_range :
       \E offset_y \in offset_y_range :
         tapped' = <<button[1] + offset_x, button[2] + offset_y>>
    /\ pc' = "tapped"
    /\ UNCHANGED <<templates, group_mode, observe, screen_width, screen_height,
                   rel, button, click_fuzziness, frameVars, state, running,
                   countVars, timerVars, pauseVars, old_settings, term,
                   summary, listenerVars, signals, stopReason, now>>
    /\ Hist

\* adb_controller.py tap, called with the resolved coordinates of a button
\* (main.py: self.adb.tap(*self.BUTTONS[...])): both offsets are drawn from
\* randint(-CLICK_FUZZINESS, CLICK_FUZZINESS), ends included, and the sum is
\* clamped to the screen.
tap ==
    /\ pc = "constructed"
    /\ \E offset_x \in offset_x_range :
       \E offset_y \in offset_y_range :
         tapped' = <<Clamp(button[1] + offset_x, screen_width),
                     Clamp(button[2] + offset_y, screen_height)>>
    /\ pc' = "tapped"
    /\ UNCHANGED <<templates, group_mode, observe, screen_width, screen_height,
                   rel, button, click_fuzziness, frameVars, state, running,
                   countVars, timerVars, pauseVars, old_settings, term,
                   summary, listenerVars, signals, stopReason, now>>
    /\ Hist

\* ------------------------------------------------------------------ Next
\* The steps of run() around the dispatch, but for the wait of a paused loop.
LoopSteps ==
    \/ LoopExit \/ LoopTop
    \/ CaptureFails \/ Guards
    \/ PollSleep \/ Backoff \/ Finally \/ PrintFinalStats

\* _react_to_state, one action per branch.
React ==
    \/ ReactReady \/ ReactMatchFound \/ ReactClear \/ ReactErrorDialog
    \/ ReactQueuing \/ ReactInDungeon \/ ReactUnknown \/ ReactSleepScreen

Main ==
    \/ SetupTerminal(BOOLEAN) \/ LoopSteps \/ PausedWait
    \/ Capture(PollFrames) \/ React

Listener ==
    \/ ListenerToggle \/ ListenerPauseStart \/ ListenerAccumulate
    \/ ListenerAdjust

Next == Main \/ Listener \/ SignalHandler

Spec == Init /\ [][Next]_vars

\* The session of the main thread and the signal handler, on a terminal that
\* takes cbreak mode, with no key pressed; the history of the run is kept.
LoopInit == InitWith({"run"})
LoopNext ==
    \/ SetupTerminal({TRUE}) \/ LoopSteps \/ Capture(PollFrames) \/ React
    \/ SignalHandler
LoopSpec == LoopInit /\ [][LoopNext]_vars

\* The session in which the screen only ever shows the clear screen's Leave
\* button: all three threads of control, and the one branch of the dispatch;
\* the history of the pauses is kept.
PauseFrames == {OnlyFrame("leave_btn")}
PauseInit == InitWith({"pause"})
PauseNext ==
    \/ SetupTerminal(BOOLEAN) \/ LoopSteps \/ PausedWait
    \/ Capture(PauseFrames) \/ ReactClear \/ Listener \/ SignalHandler
PauseSpec == PauseInit /\ [][PauseNext]_vars

\* The same session with no history kept and the main thread scheduled:
\* run() is the process's main thread and each of its sleeps ends, so a step
\* of it that stays possible is taken.
MainThread ==
    \/ SetupTerminal(BOOLEAN) \/ LoopSteps \/ PausedWait
    \/ Capture(PauseFrames) \/ ReactClear
StopInit == InitWith({})
StopSpec == StopInit /\ [][PauseNext]_vars /\ WF_vars(MainThread)

\* detect_state on its own: a template is either not loaded (None) or loaded
\* with the best correlation score the frame gives it.
Loadings == [TemplateNames -> ConfLevels \cup {None}]
LoadedOf(st) == {t \in TemplateNames : st[t] # None}
FrameOf(st) ==
    [conf |-> [t \in TemplateNames |->
                 IF st[t] = None THEN LowConf ELSE st[t]],
     upper_cyan |-> 0]
DetectInit ==
    \E st \in Loadings : InitBot({}, LoadedOf(st), FrameOf(st), "detect")
DetectNext == DetectState
DetectSpec == DetectInit /\ [][DetectNext]_vars

\* The loop's classifier on its own: the same inputs, and the count of cyan
\* pixels in the upper third of the frame at, below and above the fallback's
\* threshold.
CyanLevels == {0, CyanThreshold, CyanThreshold + 1}
ClassifyInit ==
    \E st \in Loadings : \E c \in CyanLevels :
        InitBot({}, LoadedOf(st), [FrameOf(st) EXCEPT !.upper_cyan = c],
                "classify")
ClassifyNext == ClassifyFrame
ClassifySpec == ClassifyInit /\ [][ClassifyNext]_vars

\* The session in which the screen shows nothing the templates know, or the
\* clear banner: the main thread and the signal handler; the history of the
\* UNKNOWN classifications is kept.
StallFrames == {BlankFrame, OnlyFrame("clear_screen")}
StallInit == InitWith({"stall"})
StallNext ==
    \/ SetupTerminal({TRUE}) \/ LoopSteps \/ Capture(StallFrames)
    \/ ReactUnknown \/ ReactClear \/ SignalHandler
StallSpec == StallInit /\ [][StallNext]_vars

\* The session in either mode, solo or group, on a screen that shows the
\* queue-entry button, the Accept button, the minimap or the Leave button;
\* the main thread and the signal handler; the history of the run is kept.
ReadyFrames ==
    {OnlyFrame(t) : t \in {"auto_match_btn", "accept_btn", "minimap",
                           "leave_btn"}}
ReadyInit ==
    /\ InitCore({"run"}, TemplateNames, BlankFrame, "setup")
    /\ group_mode \in BOOLEAN
    /\ AdbConstructed
ReadyNext ==
    \/ SetupTerminal({TRUE}) \/ LoopSteps \/ Capture(ReadyFrames)
    \/ ReactReady \/ ReactMatchFound \/ ReactInDungeon \/ ReactClear
    \/ SignalHandler
ReadySpec == ReadyInit /\ [][ReadyNext]_vars

\* The ADB controller on its own: constructed for a capture of any size up
\* to MaxDim by MaxDim, with a button at any fractional coordinate of the
\* closed unit square and any fuzz range up to MaxFuzz; then the button is
\* tapped.
TapInit ==
    /\ InitCore({}, TemplateNames, BlankFrame, "construct")
    /\ group_mode = FALSE
    /\ screen_width \in 1..MaxDim
    /\ screen_height \in 1..MaxDim
    /\ rel \in (0..FracDen) \X (0..FracDen)
    /\ button = None
    /\ click_fuzziness \in 0..MaxFuzz
    /\ tapped = None
TapNext == CalculateButtonCoordinates \/ tap
TapSpec == TapInit /\ [][TapNext]_vars

\* ---------------------------------------------------------------- claims
LoopLeft == pc \in {"finally", "stats", "done"}

\* C1: across one dungeon run (a MATCH_FOUND dispatch, then IN_DUNGEON
\* dispatches, then one or more consecutive CLEAR dispatches) clear_count is
\* exactly 1 higher than at the MATCH_FOUND dispatch, however many CLEAR
\* dispatches there were.
C1_OneCountPerRun ==
    runPhase \in {"clear1", "clearN"} => clear_count = matchBase + 1

\* C1, its case: a run whose clear screen was observed on two or more
\* consecutive polls.
C1_Witness ==
    /\ runPhase = "clearN"
    /\ pc = "sleep"
    /\ taps = <<"leave">>
    /\ clear_count = matchBase + 1

\* C2 as stated: between one MATCH_FOUND dispatch and the next, whatever is
\* dispatched, clear_count grows by at most 1.
C2_AtMostOnePerMatch ==
    matchBase # None => clear_count - matchBase <= 1

\* C2 as amended: clear_count grows by at most 1 between two consecutive
\* points at which last_clear_counted is cleared (the queue-entry tap of a
\* READY dispatch, the accept tap of a MATCH_FOUND dispatch); the completion
\* a READY dispatch counts belongs to the stretch that READY ends.
C2_AtMostOnePerReset ==
    [][clear_count' - resetBase <= 1]_vars

\* C2, its case: two completions since the last MATCH_FOUND dispatch, one on
\* each side of a READY dispatch.
C2_Witness ==
    /\ matchBase # None
    /\ clear_count - matchBase = 2
    /\ clear_count - resetBase = 1

\* C3: while last_clear_time has not advanced, the poll loop is over no later
\* than inactivity_timeout plus one poll interval after session start.  A tick
\* is longer than a poll interval, and the statement is given two ticks.
C3_StopsInTime ==
    (last_clear_time = T0 /\ pc # "setup" /\ ~LoopLeft)
        => now - session_start <= inactivity_timeout + 2

\* C4: once the poll loop has been left, by a guard or by a stop signal,
\* BotState is STOPPED.
C4_StoppedAtExit ==
    LoopLeft => state = "STOPPED"

C6_PauseNeverTriggersInactivity ==
    stopReason = "inactivity" => activeSinceClear + 1 > inactivity_timeout

\* C7: at every point at which the main loop (_print_status at line 217, the
\* max-runtime guard at line 237) or the summary (line 478) reads it, active
\* elapsed time is the time since session start minus the time spent with
\* the paused flag set; the statement is given one tick of timer resolution.
C7_ActiveElapsedIsWallMinusPaused ==
    LET reads == \/ pc = "top" /\ running /\ ~paused
                 \/ pc = "guards" /\ ~(now - last_clear_time > inactivity_timeout)
                 \/ pc = "stats"
        wallMinusPaused == (now - session_start) - pausedTicks
        diff == _get_active_elapsed_seconds - wallMinusPaused
    IN  reads => (diff >= -1 /\ diff <= 1)

\* C8 as stated: while the paused flag is set the main loop captures nothing
\* and dispatches nothing (so classifies nothing and taps nothing).
C8_NothingWhilePaused ==
    paused => (pausedCaptures = 0 /\ pausedDispatches = 0)

\* C8 as amended: after the paused flag is set the main loop finishes the
\* iteration in progress, at most one capture with its classification and
\* one dispatch with its tap, and from its next loop top on it starts no
\* iteration while the flag stays set.
C8_PauseTakesEffectAtLoopTop ==
    /\ [](paused => (pausedCaptures <= 1 /\ pausedDispatches <= 1))
    /\ [][(paused /\ paused' /\ pc = "top") => pc' \in {"top", "finally"}]_vars

\* C8, its case: the flag was set between the loop top and the capture, and
\* the iteration captured, classified and tapped Leave with the flag set.
C8_Witness ==
    /\ paused
    /\ pausedCaptures = 1
    /\ pausedDispatches = 1
    /\ pc = "sleep"
    /\ taps = <<"leave">>

C10_PriorityOrder ==
    LET Meets(t) == t \in templates /\ screenshot.conf[t] >= MATCH_THRESHOLD
        Priority == <<{"sleep_screen"}, {"notice_banner"}, {"auto_match_btn"},
                      {"clear_screen"}, {"accept_btn", "leave_btn"},
                      {"matchmaking"}, {"minimap"}>>
        StateOf(t) == CASE t = "sleep_screen" -> "SLEEP_SCREEN"
                        [] t = "notice_banner" -> "ERROR_DIALOG"
                        [] t = "auto_match_btn" -> "READY"
                        [] t = "clear_screen" -> "CLEAR"
                        [] t = "accept_btn" -> "MATCH_FOUND"
                        [] t = "leave_btn" -> "CLEAR"
                        [] t = "matchmaking" -> "QUEUING"
                        [] t = "minimap" -> "IN_DUNGEON"
    IN  pc = "detected" =>
          \A i \in 1..7 :
            ( /\ \E t \in Priority[i] : Meets(t)
              /\ \A j \in 1..(i - 1) : \A t \in Priority[j] : ~Meets(t) )
            => detected_state \in {StateOf(t) : t \in {u \in Priority[i] : Meets(u)}}

\* C10, its case: the Auto Match button, the Leave button, the matchmaking
\* indicator and the minimap all meet the threshold, nothing above them
\* does, and READY is returned.
C10_Witness ==
    /\ pc = "detected"
    /\ {"auto_match_btn", "leave_btn", "matchmaking", "minimap"} \subseteq templates
    /\ screenshot.conf["auto_match_btn"] = AtConf
    /\ screenshot.conf["leave_btn"] = HighConf
    /\ screenshot.conf["matchmaking"] = HighConf
    /\ screenshot.conf["minimap"] = HighConf
    /\ ~("sleep_screen" \in templates /\ screenshot.conf["sleep_screen"] >= MATCH_THRESHOLD)
    /\ ~("notice_banner" \in templates /\ screenshot.conf["notice_banner"] >= MATCH_THRESHOLD)
    /\ detected_state = "READY"

\* C11: with no higher-priority signal found and both accept_btn and
\* leave_btn found, detect_state returns MATCH_FOUND when accept's confidence
\* is strictly higher, CLEAR when leave's is strictly higher and, on an exact
\* tie, always CLEAR; with only one of the two found, that one decides.
C11_TieBreak ==
    LET Meets(t) == t \in templates /\ screenshot.conf[t] >= MATCH_THRESHOLD
        ca == screenshot.conf["accept_btn"]
        cl == screenshot.conf["leave_btn"]
        higher == \E t \in {"sleep_screen", "notice_banner", "auto_match_btn",
                             "clear_screen"} : Meets(t)
    IN  (pc = "detected" /\ ~higher) =>
          /\ (Meets("accept_btn") /\ Meets("leave_btn") /\ ca > cl)
                => detected_state = "MATCH_FOUND"
          /\ (Meets("accept_btn") /\ Meets("leave_btn") /\ cl > ca)
                => detected_state = "CLEAR"
          /\ (Meets("accept_btn") /\ Meets("leave_btn") /\ ca = cl)
                => detected_state = "CLEAR"
          /\ (Meets("accept_btn") /\ ~Meets("leave_btn"))
                => detected_state = "MATCH_FOUND"
          /\ (~Meets("accept_btn") /\ Meets("leave_btn"))
                => detected_state = "CLEAR"

\* C11, its case: accept_btn and leave_btn tie above the threshold while the
\* matchmaking indicator is found too, and CLEAR is returned.
C11_Witness ==
    /\ pc = "detected"
    /\ {"accept_btn", "leave_btn", "matchmaking"} \subseteq templates
    /\ screenshot.conf["accept_btn"] = HighConf
    /\ screenshot.conf["leave_btn"] = HighConf
    /\ screenshot.conf["matchmaking"] = HighConf
    /\ detected_state = "CLEAR"

\* C12 as stated: the loop's classifier returns a member of ScreenStates, and
\* UNKNOWN exactly when no loaded template meets the threshold, for every
\* set of loaded templates, the empty set included.
C12_UnknownIffNoSignal ==
    LET Meets(t) == t \in templates /\ screenshot.conf[t] >= MATCH_THRESHOLD
    IN  pc = "classified" =>
          /\ detected_state \in ScreenStates
          /\ detected_state = "UNKNOWN" <=> ~(\E t \in TemplateNames : Meets(t))

\* C12 as amended: the loop's classifier returns a member of ScreenStates;
\* with a template loaded, UNKNOWN exactly when no loaded template meets the
\* threshold; with none loaded, UNKNOWN exactly when the cyan count of the
\* upper third is at most 5000, and CLEAR otherwise.
C12_TotalClassification ==
    LET Meets(t) == t \in templates /\ screenshot.conf[t] >= MATCH_THRESHOLD
    IN  pc = "classified" =>
          /\ detected_state \in ScreenStates
          /\ templates # {} =>
                (detected_state = "UNKNOWN"
                   <=> ~(\E t \in TemplateNames : Meets(t)))
          /\ templates = {} =>
                /\ detected_state = "UNKNOWN" <=> screenshot.upper_cyan <= 5000
                /\ detected_state = "CLEAR" <=> screenshot.upper_cyan > 5000

\* C12, its case: no template loaded and a frame with more than 5000 cyan
\* pixels in its upper third: CLEAR, not UNKNOWN.
C12_Witness ==
    /\ pc = "classified"
    /\ templates = {}
    /\ screenshot.upper_cyan = CyanThreshold + 1
    /\ detected_state = "CLEAR"

\* C13: find_template reports a template found exactly when it is loaded and
\* its best score is at least the threshold, with the score as confidence;
\* a template that is not loaded is not found and has confidence 0, whatever
\* the frame; with auto_match_btn alone loaded and its score at or above the
\* threshold detect_state returns READY.
C13_FoundIffLoadedAndAtLeast ==
    pc = "detected" =>
      /\ \A t \in TemplateNames : \A c \in ConfLevels :
           LET frame == [screenshot EXCEPT !.conf[t] = c]
               r == find_template(templates, frame, t)
           IN  /\ r[1] <=> (t \in templates /\ c >= MATCH_THRESHOLD)
               /\ r[2] = IF t \in templates THEN c ELSE 0
      /\ ( /\ templates = {"auto_match_btn"}
           /\ screenshot.conf["auto_match_btn"] >= MATCH_THRESHOLD )
          => detected_state = "READY"

\* C13, its case: auto_match_btn alone is loaded and scores exactly the
\* threshold.
C13_Witness ==
    /\ pc = "detected"
    /\ templates = {"auto_match_btn"}
    /\ screenshot.conf["auto_match_btn"] = MATCH_THRESHOLD
    /\ detected_state = "READY"

\* C14: with at least one template loaded the loop's classification is the
\* template-based result whatever the colours of the frame; with none loaded
\* it is CLEAR or UNKNOWN.
C14_FallbackOnlyWithoutTemplates ==
    pc = "classified" =>
      /\ templates # {} => detected_state = detect_state(templates, screenshot)
      /\ templates = {} => detected_state \in {"CLEAR", "UNKNOWN"}

\* C14, its case: a template is loaded, none matches, and the frame has the
\* cyan count the fallback takes for the clear screen: UNKNOWN.
C14_Witness ==
    /\ pc = "classified"
    /\ templates # {}
    /\ screenshot.upper_cyan > CyanThreshold
    /\ detected_state = "UNKNOWN"

\* C15 as stated: for a base coordinate inside the capture, the coordinate
\* tap sends is inside the capture and strictly within the fuzz range of the
\* base on each axis.
C15_JitterStrictlyWithinRange ==
    (pc = "tapped" /\ button[1] \in 0..(screen_width - 1)
                   /\ button[2] \in 0..(screen_height - 1)) =>
      /\ 0 <= tapped[1] /\ tapped[1] <= screen_width - 1
      /\ 0 <= tapped[2] /\ tapped[2] <= screen_height - 1
      /\ button[1] - click_fuzziness < tapped[1]
      /\ tapped[1] < button[1] + click_fuzziness
      /\ button[2] - click_fuzziness < tapped[2]
      /\ tapped[2] < button[2] + click_fuzziness

\* C15 as amended: for a base coordinate inside the capture, the coordinate
\* tap sends is inside the capture and within the fuzz range of the base on
\* each axis, the ends of the range included.
C15_JitterWithinClosedRange ==
    (pc = "tapped" /\ button[1] \in 0..(screen_width - 1)
                   /\ button[2] \in 0..(screen_height - 1)) =>
      /\ 0 <= tapped[1] /\ tapped[1] <= screen_width - 1
      /\ 0 <= tapped[2] /\ tapped[2] <= screen_height - 1
      /\ button[1] - click_fuzziness <= tapped[1]
      /\ tapped[1] <= button[1] + click_fuzziness
      /\ button[2] - click_fuzziness <= tapped[2]
      /\ tapped[2] <= button[2] + click_fuzziness

\* C15, its case: a tap sent at the very end of the fuzz range on the x axis
\* and clamped to the top edge of the capture on the y axis.
C15_Witness ==
    /\ pc = "tapped"
    /\ click_fuzziness > 0
    /\ button[1] \in 0..(screen_width - 1)
    /\ button[2] \in 0..(screen_height - 1)
    /\ tapped[1] = button[1] + click_fuzziness
    /\ tapped[2] = 0
    /\ button[2] - click_fuzziness < 0

C17_SleepScreenRecovers ==
    (pc = "sleep" /\ detected_state = "SLEEP_SCREEN")
        => (Len(taps) > 0 /\ taps[1] = "swipe")

\* C18: an IN_DUNGEON dispatch made more than DUNGEON_TIMEOUT after
\* dungeon_start resets BotState to IDLE and counts nothing; any other
\* IN_DUNGEON dispatch taps nothing.
C18_DungeonTimeoutResets ==
    [][(IsDispatch /\ detected_state = "IN_DUNGEON") =>
         IF now - dungeon_start > DUNGEON_TIMEOUT
         THEN state' = "IDLE" /\ clear_count' = clear_count
         ELSE taps' = <<>>]_vars

\* C19: once the polls have classified the screen UNKNOWN in a row for
\* longer than the stall bound (ten minutes, 2 ticks on the scale of the
\* other timeouts), the poll that finds it so stops the bot: after its
\* dispatch the loop has been left.
C19_StallStops ==
    LET StallBound == 2
    IN  ( /\ unknownSince # None
          /\ now - unknownSince > StallBound
          /\ detected_state = "UNKNOWN"
          /\ pc \notin {"guards", "dispatch"} ) => LoopLeft

\* C20: a READY dispatch counts a completion exactly when BotState is
\* IN_DUNGEON, last_clear_counted is false and more than the 30-second floor
\* has passed since dungeon_start; in every case it taps the queue-entry
\* button of the mode (enter in group mode, auto_match in solo mode) and
\* nothing else, and ends with BotState QUEUING, queue_start = now and
\* last_clear_counted false.
C20_ReadyDispatch ==
    [][(IsDispatch /\ detected_state = "READY") =>
         LET counts == /\ state = "IN_DUNGEON"
                       /\ ~last_clear_counted
                       /\ now - dungeon_start > MinDungeonTime
         IN  /\ clear_count' = clear_count + (IF counts THEN 1 ELSE 0)
             /\ taps' = <<IF group_mode THEN "enter" ELSE "auto_match">>
             /\ state' = "QUEUING"
             /\ queue_start' = now
             /\ last_clear_counted' = FALSE]_vars

\* C20, its case: in group mode a READY dispatch counted the run whose clear
\* screen was never seen and tapped Enter.
C20_Witness ==
    /\ group_mode
    /\ pc = "sleep"
    /\ detected_state = "READY"
    /\ taps = <<"enter">>
    /\ state = "QUEUING"
    /\ queue_start = now
    /\ clear_count = 1
    /\ resetBase = 1
    /\ ~last_clear_counted

\* C21: a MATCH_FOUND dispatch, whatever BotState it starts from, taps accept
\* once and nothing else, and ends with BotState IN_DUNGEON, dungeon_start =
\* now and last_clear_counted false; clear_count, last_clear_time and
\* queue_start are as before.
C21_MatchFoundDispatch ==
    [][(IsDispatch /\ detected_state = "MATCH_FOUND") =>
         /\ taps' = <<"accept">>
         /\ state' = "IN_DUNGEON"
         /\ dungeon_start' = now'
         /\ last_clear_counted' = FALSE
         /\ UNCHANGED <<clear_count, last_clear_time, queue_start>>]_vars

\* C21, its case: the Accept popup was dispatched after a counted run and a
\* later queue entry, from BotState QUEUING; the count, the clear time and
\* the queue time are those of before.
C21_Witness ==
    /\ pc = "sleep"
    /\ detected_state = "MATCH_FOUND"
    /\ taps = <<"accept">>
    /\ state = "IN_DUNGEON"
    /\ dungeon_start = now
    /\ ~last_clear_counted
    /\ clear_count = 1
    /\ last_clear_time < now
    /\ queue_start > last_clear_time
    /\ queue_start < now

\* C22: a CLEAR dispatch taps leave once and nothing else whether or not the
\* run was counted, applies the completion rule exactly when
\* last_clear_counted is false (otherwise the count, the clear time and
\* BotState are as before), and ends with last_clear_counted true.
C22_ClearDispatch ==
    [][(IsDispatch /\ detected_state = "CLEAR") =>
         /\ taps' = <<"leave">>
         /\ last_clear_counted' = TRUE
         /\ IF ~last_clear_counted
            THEN /\ clear_count' = clear_count + 1
                 /\ last_clear_time' = now'
                 /\ state' = "IDLE"
            ELSE UNCHANGED <<clear_count, last_clear_time, state>>]_vars

\* C22, its case: the clear screen was dispatched a second time, after the
\* run had been counted by an earlier poll: leave is tapped again and
\* nothing is counted.
C22_Witness ==
    /\ pc = "sleep"
    /\ detected_state = "CLEAR"
    /\ taps = <<"leave">>
    /\ last_clear_counted
    /\ clear_count = 1
    /\ last_clear_time < now
    /\ runPhase = "clearN"

\* C24: an ERROR_DIALOG dispatch, whatever BotState it starts from, taps ok
\* once and nothing else and ends with BotState IDLE; clear_count,
\* last_clear_counted, last_clear_time, queue_start and dungeon_start are as
\* before.
C24_ErrorDialogDispatch ==
    [][(IsDispatch /\ detected_state = "ERROR_DIALOG") =>
         /\ taps' = <<"ok">>
         /\ state' = "IDLE"
         /\ UNCHANGED <<clear_count, last_clear_counted, last_clear_time,
                        queue_start, dungeon_start>>]_vars

\* C24, its case: the dialog was dispatched during a dungeon run (a match
\* accepted, nothing counted yet): BotState is IDLE, and the timers, the
\* count and the flag are those of the run.
C24_Witness ==
    /\ pc = "sleep"
    /\ detected_state = "ERROR_DIALOG"
    /\ taps = <<"ok">>
    /\ state = "IDLE"
    /\ dungeon_start > T0
    /\ queue_start = 0
    /\ clear_count = 0
    /\ ~last_clear_counted

\* C23: a QUEUING dispatch ends in one of two ways, decided by the reading
\* when there is one and by now - queue_start when there is none: the
\* cancel_queue tap alone and BotState IDLE, or the accept tap alone and
\* BotState QUEUING; clear_count and last_clear_counted are as before.
C23_QueuingDispatch ==
    [][(IsDispatch /\ detected_state = "QUEUING") =>
         /\ \/ taps' = <<"cancel_queue">> /\ state' = "IDLE"
            \/ taps' = <<"accept">> /\ state' = "QUEUING"
         /\ UNCHANGED <<clear_count, last_clear_counted>>]_vars

C26_ListenerWritesPauseOnly ==
    [][IsListenerStep =>
         UNCHANGED <<clear_count, last_clear_counted, last_clear_time,
                     queue_start, dungeon_start, total_paused_seconds>>]_vars

\* C27: a capture that fails passes control to the handler and nowhere
\* else; neither that step nor the back-off that follows taps anything or
\* writes BotState, running, the counters or the timers, and the back-off
\* ends at the top of the loop; from there the loop captures again unless it
\* has been stopped or paused meanwhile.
C27_CaptureFailureRetried ==
    /\ [][/\ (pc = "capture" /\ pc' \notin {"capture", "guards"}) =>
               /\ pc' = "except"
               /\ taps' = <<>>
               /\ UNCHANGED <<state, running, countVars, timerVars, now>>
          /\ (pc = "except" /\ detected_state = "NONE" /\ pc' # "except") =>
               /\ pc' = "top"
               /\ taps' = <<>>
               /\ UNCHANGED <<state, running, countVars, timerVars>>]_vars
    /\ ((pc = "except" /\ detected_state = "NONE")
            ~> (pc = "capture" \/ ~running \/ paused))

\* C27, its case: a capture failed in a session that has counted a run and is
\* still running.
C27_Witness ==
    /\ pc = "except"
    /\ detected_state = "NONE"
    /\ taps = <<>>
    /\ running
    /\ ~paused
    /\ clear_count = 1
    /\ last_clear_counted

\* C28: a tap draws its horizontal offset from
\* -CLICK_FUZZINESS_X..CLICK_FUZZINESS_X and its vertical offset from
\* -CLICK_FUZZINESS_Y..CLICK_FUZZINESS_Y, the horizontal range the wider.
C28_AxisSpecificRanges ==
    pc = "tapped" =>
      /\ offset_x_range = (-CLICK_FUZZINESS_X)..CLICK_FUZZINESS_X
      /\ offset_y_range = (-CLICK_FUZZINESS_Y)..CLICK_FUZZINESS_Y
      /\ CLICK_FUZZINESS_X > CLICK_FUZZINESS_Y

\* C30: a READY dispatch that increments clear_count follows a MATCH_FOUND
\* dispatch made since the previous increment (or since the start of the
\* session), by more than the 30-second floor (dungeon_start is written by
\* MATCH_FOUND dispatches only).
C30_ReadyCountFollowsMatch ==
    [][(IsDispatch /\ detected_state = "READY"
            /\ clear_count' = clear_count + 1) =>
         /\ matchBase = clear_count
         /\ now - dungeon_start > MinDungeonTime]_vars

\* C31: last_clear_time never moves backward, however the listener's resume
\* adjustment (read, add the pause duration, write back) interleaves with the
\* completion rule of the main loop (write now).
C31_ClearTimeNeverMovesBack ==
    [][last_clear_time' >= last_clear_time]_vars

\* C32: BotState is one of IDLE, QUEUING, IN_DUNGEON and STOPPED in every
\* state, MATCH_FOUND and CLEAR are never assigned, and only the signal
\* handler changes it to STOPPED.
C32_BotStateValues ==
    /\ state = "IDLE"
    /\ [][/\ state' \in {"IDLE", "QUEUING", "IN_DUNGEON", "STOPPED"}
          /\ (state' = "STOPPED" /\ state # "STOPPED") =>
               (signals' = signals + 1 /\ pc' = pc)]_vars

\* C32, its case: a session that accepted a match (BotState IN_DUNGEON at the
\* end of the MATCH_FOUND dispatch) and was then stopped by a signal.
C32_Witness ==
    /\ state = "STOPPED"
    /\ signals = 1
    /\ detected_state = "MATCH_FOUND"
    /\ pc = "sleep"
    /\ taps = <<"accept">>
    /\ dungeon_start = now

\* C33: no QUEUING and no UNKNOWN dispatch ends in the generic exception
\* handler of the loop: each reaches the end of its branch.
C33_DispatchNeverAborts ==
    [][(IsDispatch /\ detected_state \in {"QUEUING", "UNKNOWN"}) =>
         pc' = "sleep"]_vars

=============================================================================
